---- MODULE Spec2Model ----
(***************************************************************************)
(* Model of mftracker.py: a Streamlit page that keeps mutual-fund holdings *)
(* in a Supabase table (use_db) or in st.session_state, fetches the AMFI   *)
(* NAV file through a one-hour cache and writes the matched NAV into every *)
(* holding on each script run.                                             *)
(*                                                                         *)
(* Numbers are exact rationals [k, n, d]; k = "NaN" is the float NaN that  *)
(* pd.to_numeric(errors="coerce") produces and k = "None" is Python None.  *)
(* Strings are sequences of one-character strings.  The notes and          *)
(* purchase_date fields are carried through every operation untouched and  *)
(* are left out of the record.                                             *)
(***************************************************************************)
EXTENDS Integers, Sequences, FiniteSets, TLC

VARIABLES use_db, store, nextId, feed, cache, show_add_form, pc, count, last,
          calcArgs, calcRes

vars == <<use_db, store, nextId, feed, cache, show_add_form, pc, count, last,
          calcArgs, calcRes>>

\* ------------------------------------------------------------------ bounds
MaxHoldings == 2
MaxIds == 1
TickSeconds == 1800
MaxCalc == 3

\* --------------------------------------------------------------- constants
TTL == 3600

\* ----------------------------------------------------------------- numbers
Abs(x) == IF x < 0 THEN -x ELSE x

RECURSIVE GCD(_, _)
GCD(a, b) == IF b = 0 THEN a ELSE GCD(b, a % b)

Num(n, d) ==
    LET g == GCD(Abs(n), Abs(d))
        s == IF d < 0 THEN -1 ELSE 1
    IN  [k |-> "num", n |-> (s * n) \div g, d |-> (s * d) \div g]

NumInt(n) == [k |-> "num", n |-> n, d |-> 1]
NaN == [k |-> "NaN", n |-> 0, d |-> 1]
None == [k |-> "None", n |-> 0, d |-> 1]

IsNum(x) == x.k = "num"
\* Python truthiness of a float: anything but 0.0
Truthy(x) == ~(x.k = "num" /\ x.n = 0)
IsZero(x) == x.k = "num" /\ x.n = 0
Pos(x) == x.k = "num" /\ x.n > 0
\* x <= 0 on floats
LeqZero(x) == x.k = "num" /\ x.n <= 0

Mul(x, y) == IF IsNum(x) /\ IsNum(y) THEN Num(x.n * y.n, x.d * y.d) ELSE NaN
Sub(x, y) == IF IsNum(x) /\ IsNum(y) THEN Num(x.n * y.d - y.n * x.d, x.d * y.d) ELSE NaN
Div(x, y) == IF IsNum(x) /\ IsNum(y) THEN Num(x.n * y.d, x.d * y.n) ELSE NaN

\* --------------------------------------------------- compute_other (167-177)
compute_other_swapped(amount, units, purchase_nav) ==
    IF Truthy(purchase_nav) /\ Truthy(amount) /\ ~Truthy(units)
    THEN <<amount, Mul(amount, purchase_nav)>>
    ELSE IF Truthy(purchase_nav) /\ Truthy(units) /\ ~Truthy(amount)
         THEN <<Div(units, purchase_nav), units>>
         ELSE <<amount, units>>

compute_other(amount, units, purchase_nav) ==
    IF Truthy(purchase_nav) /\ Truthy(amount) /\ ~Truthy(units)
    THEN <<amount, Div(amount, purchase_nav)>>
    ELSE IF Truthy(purchase_nav) /\ Truthy(units) /\ ~Truthy(amount)
         THEN <<Mul(units, purchase_nav), units>>
         ELSE <<amount, units>>

\* ------------------------------------------------------------ feed parsing
Digits == {"0", "1", "2", "3", "4", "5", "6", "7", "8", "9"}
DigitVal(c) == CASE c = "0" -> 0 [] c = "1" -> 1 [] c = "2" -> 2 [] c = "3" -> 3
                 [] c = "4" -> 4 [] c = "5" -> 5 [] c = "6" -> 6 [] c = "7" -> 7
                 [] c = "8" -> 8 [] c = "9" -> 9

NotComma(c) == c # ","

RECURSIVE DecVal(_)
DecVal(s) == IF s = <<>> THEN 0
             ELSE 10 * DecVal(SubSeq(s, 1, Len(s) - 1)) + DigitVal(s[Len(s)])

\* pd.to_numeric(col.astype(str).str.replace(",", ""), errors="coerce")
ToNumeric(raw) ==
    LET s == SelectSeq(raw, NotComma)
    IN  IF s # <<>> /\ \A i \in 1..Len(s) : s[i] \in Digits
        THEN NumInt(DecVal(s))
        ELSE NaN

RECURSIVE LStrip(_)
LStrip(s) == IF s # <<>> /\ s[1] = " " THEN LStrip(Tail(s)) ELSE s
RECURSIVE RStrip(_)
RStrip(s) == IF s # <<>> /\ s[Len(s)] = " " THEN RStrip(SubSeq(s, 1, Len(s) - 1)) ELSE s

\* col.astype(str).str.strip(): a missing field (NaN) becomes the text "nan"
CleanName(raw) == IF raw = <<>> THEN <<"n", "a", "n">> ELSE RStrip(LStrip(raw))

ParseRow(row) == [name |-> CleanName(row.name), nav |-> ToNumeric(row.nav)]

\* df.dropna(subset=["Scheme Name"]): after astype(str) no name is NA
NameIsNA(row) == FALSE
KeepRow(row) == ~NameIsNA(row)

ParseRows(rows) == SelectSeq([i \in 1..Len(rows) |-> ParseRow(rows[i])], KeepRow)

EmptyDf == <<>>

\* body of fetch_amfi_nav_df; ok = FALSE is any exception inside the try block
fetch_amfi_nav_df_noexcept(ok, rows) == ParseRows(rows)

fetch_amfi_nav_df(ok, rows) == IF ok THEN ParseRows(rows) ELSE EmptyDf

\* the upstream file at two moments; an empty name/price is a short row
\* (the category header lines of the AMFI file)
Feeds == <<
    << [name |-> <<" ", "A", "b">>, nav |-> <<"3">>],
       [name |-> <<"b", "X">>,      nav |-> <<"N">>] >>,
    << [name |-> <<>>,              nav |-> <<>>],
       [name |-> <<"A", "b", " ">>, nav |-> <<"1", ",", "2">>] >> >>

\* ---------------------------------------------------------------- matching
Lower(c) == CASE c = "A" -> "a" [] c = "B" -> "b" [] c = "N" -> "n"
              [] c = "X" -> "x" [] c = "Z" -> "z" [] OTHER -> c

\* Series.str.contains(needle, case=False) on one value, for needles made of
\* letters (no regex metacharacter is in the alphabet)
Contains(hay, needle) ==
    \E i \in 0..(Len(hay) - Len(needle)) :
        \A j \in 1..Len(needle) : Lower(hay[i + j]) = Lower(needle[j])

\* nav_df[nav_df["Scheme Name"].str.contains(mf_name, case=False, na=False)]
Match(df, mf_name) ==
    LET Hit(row) == Contains(row.name, mf_name) IN SelectSeq(df, Hit)

\* ------------------------------------------------------------------- store
NoId == 0

Ids(rows) == {rows[i].id : i \in 1..Len(rows)}

\* what the loop body of refresh_navs_for_all writes into one matched row
Refreshed(r, df) ==
    LET latest_nav == Match(df, r.mf_name)[1].nav
        profit_loss == Mul(Sub(latest_nav, r.purchase_nav), r.units)
    IN  [r EXCEPT !.current_nav = latest_nav, !.profit_loss = profit_loss]

RefreshRow_ResetOnMiss(r, df) ==
    IF Len(Match(df, r.mf_name)) > 0 THEN Refreshed(r, df)
    ELSE [r EXCEPT !.current_nav = None, !.profit_loss = None]

RefreshRow(r, df) ==
    IF Len(Match(df, r.mf_name)) > 0 THEN Refreshed(r, df) ELSE r

\* The loop over the rows.  With Supabase the update travels as JSON, in
\* which NaN has no representation: the client or the server may refuse it
\* (an exception ends the pass at that row) or the column may take NaN.
\* nanRaises picks the outcome; the session list always takes the NaN.
RECURSIVE RefreshLoop(_, _, _, _, _)
RefreshLoop(rows, df, i, cnt, nanRaises) ==
    IF i > Len(rows) THEN [rows |-> rows, count |-> cnt, raised |-> FALSE]
    ELSE LET r == rows[i]
             hit == Len(Match(df, r.mf_name)) > 0
             new == RefreshRow(r, df)
         IN  IF hit /\ use_db /\ nanRaises /\ new.current_nav = NaN
             THEN [rows |-> rows, count |-> cnt, raised |-> TRUE]
             ELSE RefreshLoop([rows EXCEPT ![i] = new], df, i + 1,
                              IF hit THEN cnt + 1 ELSE cnt, nanRaises)

\* refresh_navs_for_all once nav_df is known
refresh_navs_for_all(rows, df, nanRaises) ==
    IF df = EmptyDf
    THEN [rows |-> rows, count |-> 0, raised |-> FALSE]
    ELSE RefreshLoop(rows, df, 1, 0, nanRaises)

\* @st.cache_data(ttl=3600): an entry younger than the ttl is returned
\* without running the body
CacheValid == cache.filled /\ cache.age < TTL

\* insert_record
insert_record(rows, record) ==
    IF use_db
    THEN Append(rows, [record EXCEPT !.id = nextId, !.created_at = TRUE])
    ELSE Append(rows, [record EXCEPT !.created_at = TRUE])

\* update_record: the row with the id takes the new fields, silently nothing
\* when there is none
update_record(rows, record_id, updates) ==
    LET Merge(r) == [r EXCEPT !.mf_name = updates.mf_name,
                              !.purchase_nav = updates.purchase_nav,
                              !.units = updates.units,
                              !.amount = updates.amount]
        first == IF \E i \in 1..Len(rows) : rows[i].id = record_id
                 THEN CHOOSE i \in 1..Len(rows) :
                        /\ rows[i].id = record_id
                        /\ \A j \in 1..(i - 1) : rows[j].id # record_id
                 ELSE 0
    IN  IF use_db
        THEN [i \in 1..Len(rows) |-> IF rows[i].id = record_id THEN Merge(rows[i]) ELSE rows[i]]
        ELSE [i \in 1..Len(rows) |-> IF i = first THEN Merge(rows[i]) ELSE rows[i]]

delete_record_first(rows, record_id) ==
    IF rows = <<>> THEN rows ELSE Tail(rows)

\* delete_record
delete_record(rows, record_id) ==
    LET Keep(r) == r.id # record_id IN SelectSeq(rows, Keep)

\* ------------------------------------------------------------------ inputs
NameInputs == { <<>>, <<"a">>, <<"z">> }
UserInputs == { "", "You" }
\* the number inputs of the add form: purchase_nav, <<amount, units>>
NavInputs == { NumInt(0), NumInt(2) }
AmountUnitsInputs == { <<NumInt(0), NumInt(0)>>, <<NumInt(4), NumInt(0)>>, <<NumInt(0), NumInt(2)>> }
\* the number inputs of the update form: <<purchase_nav, amount, units>>
UpdateInputs == { <<NumInt(2), NumInt(4), NumInt(0)>>, <<NumInt(0), NumInt(0), NumInt(0)>> }
\* the ids a caller may pass: every id the table can issue and one it never issues
IdInputs == 1..(MaxIds + 1)

CalcNums == { NumInt(n) : n \in -1..MaxCalc }

NoOp == [op |-> "none", id |-> NoId, fetch |-> "none", outcome |-> "none"]

\* -------------------------------------------------------------------- Init
Init ==
    /\ use_db \in BOOLEAN
    /\ store = <<>>
    /\ nextId = 1
    /\ feed \in 1..Len(Feeds)
    /\ cache = [filled |-> FALSE, df |-> EmptyDf, age |-> 0]
    /\ show_add_form = FALSE
    /\ pc = "idle"
    /\ count = 0
    /\ last = NoOp
    /\ calcArgs = <<NumInt(0), NumInt(0), NumInt(0)>>
    /\ calcRes = <<>>

\* one call of refresh_navs_for_all: the cached fetch, then the loop
RefreshPass(op, ok, nanRaises, nextPc) ==
    LET hit == CacheValid
        df == IF hit THEN cache.df ELSE fetch_amfi_nav_df(ok, Feeds[feed])
        res == refresh_navs_for_all(store, df, nanRaises)
    IN  /\ cache' = IF hit THEN cache ELSE [filled |-> TRUE, df |-> df, age |-> 0]
        /\ store' = res.rows
        /\ count' = IF res.raised THEN count ELSE res.count
        /\ pc' = IF res.raised THEN "idle" ELSE nextPc
        /\ last' = [op |-> op, id |-> NoId,
                    fetch |-> IF hit THEN "hit" ELSE IF ok THEN "ok" ELSE "fail",
                    outcome |-> IF res.raised THEN "raised" ELSE "ok"]

\* lines 157-158: every script run starts with a refresh
StartRun ==
    /\ pc = "idle"
    /\ \E ok \in BOOLEAN, nanRaises \in BOOLEAN : RefreshPass("startup", ok, nanRaises, "body")
    /\ UNCHANGED <<use_db, nextId, feed, show_add_form, calcArgs, calcRes>>

\* a run in which no button was pressed
PlainRun ==
    /\ pc = "body"
    /\ pc' = "idle"
    /\ last' = NoOp
    /\ UNCHANGED <<use_db, store, nextId, feed, cache, show_add_form, count, calcArgs, calcRes>>

\* lines 193-194
OpenAddForm ==
    /\ pc = "body"
    /\ show_add_form' = TRUE
    /\ pc' = "idle"
    /\ last' = NoOp
    /\ UNCHANGED <<use_db, store, nextId, feed, cache, count, calcArgs, calcRes>>

\* lines 196-199
RefreshNow ==
    /\ pc = "body"
    /\ \E ok \in BOOLEAN, nanRaises \in BOOLEAN : RefreshPass("refresh_now", ok, nanRaises, "idle")
    /\ UNCHANGED <<use_db, nextId, feed, show_add_form, calcArgs, calcRes>>
\* lines 226-236: the record the add form builds (it carries no id)
new_record(user_name, mf_name, purchase_nav, units_preview, amount_preview) ==
    [id |-> NoId, user_name |-> user_name, mf_name |-> mf_name,
     purchase_nav |-> purchase_nav, units |-> units_preview, amount |-> amount_preview,
     current_nav |-> None, profit_loss |-> None, created_at |-> FALSE]

\* line 223: the add form's validation
AddInvalid(user_name, mf_name, purchase_nav, amount_preview, units_preview) ==
    \/ user_name = ""
    \/ mf_name = <<>>
    \/ LeqZero(purchase_nav)
    \/ (LeqZero(amount_preview) /\ LeqZero(units_preview))

\* lines 202-240: "Save new holding"
AddSubmit ==
    /\ pc = "body"
    /\ show_add_form
    /\ \E user_name \in UserInputs, mf_name \in NameInputs, purchase_nav \in NavInputs,
          au \in AmountUnitsInputs :
         LET p == compute_other(au[1], au[2], purchase_nav)
             amount_preview == p[1]
             units_preview == p[2]
         IN  IF AddInvalid(user_name, mf_name, purchase_nav, amount_preview, units_preview)
             THEN /\ last' = [NoOp EXCEPT !.op = "add", !.outcome = "invalid"]
                  /\ UNCHANGED <<store, nextId, show_add_form>>
             ELSE /\ Len(store) < MaxHoldings
                  /\ use_db => nextId <= MaxIds
                  /\ store' = insert_record(store, new_record(user_name, mf_name, purchase_nav,
                                                              units_preview, amount_preview))
                  /\ nextId' = IF use_db THEN nextId + 1 ELSE nextId
                  /\ show_add_form' = FALSE
                  /\ last' = [NoOp EXCEPT !.op = "add", !.outcome = "ok"]
    /\ pc' = "idle"
    /\ UNCHANGED <<use_db, feed, cache, count, calcArgs, calcRes>>

\* lines 288-300: "Update record".  record_id is any id the caller may hold,
\* stored or not; the form's number inputs have no lower limit and nothing
\* is validated.
UpdateSubmit ==
    /\ pc = "body"
    /\ \E record_id \in IdInputs, upd_mf_name \in NameInputs, upd \in UpdateInputs :
         LET upd_purchase_nav == upd[1]
             p == compute_other(upd[2], upd[3], upd_purchase_nav)
             updates == [mf_name |-> upd_mf_name, purchase_nav |-> upd_purchase_nav,
                         units |-> p[2], amount |-> p[1]]
         IN  /\ store' = update_record(store, record_id, updates)
             /\ last' = [NoOp EXCEPT !.op = "update", !.id = record_id, !.outcome = "ok"]
    /\ pc' = "idle"
    /\ UNCHANGED <<use_db, nextId, feed, cache, show_add_form, count, calcArgs, calcRes>>

\* lines 301-303: "Delete record"
DeleteSubmit ==
    /\ pc = "body"
    /\ \E record_id \in IdInputs :
         /\ store' = delete_record(store, record_id)
         /\ last' = [NoOp EXCEPT !.op = "delete", !.id = record_id, !.outcome = "ok"]
    /\ pc' = "idle"
    /\ UNCHANGED <<use_db, nextId, feed, cache, show_add_form, count, calcArgs, calcRes>>

\* the upstream file changes
FeedChange ==
    /\ pc = "idle"
    /\ \E f \in 1..Len(Feeds) : f # feed /\ feed' = f
    /\ last' = NoOp
    /\ UNCHANGED <<use_db, store, nextId, cache, show_add_form, pc, count, calcArgs, calcRes>>

\* time passes; an entry that reaches its ttl is dropped from the cache
Tick ==
    /\ pc = "idle"
    /\ CacheValid
    /\ cache' = IF cache.age + TickSeconds < TTL
                THEN [cache EXCEPT !.age = cache.age + TickSeconds]
                ELSE [filled |-> FALSE, df |-> EmptyDf, age |-> 0]
    /\ last' = NoOp
    /\ UNCHANGED <<use_db, store, nextId, feed, show_add_form, pc, count, calcArgs, calcRes>>

Next ==
    \/ StartRun
    \/ PlainRun
    \/ OpenAddForm
    \/ RefreshNow
    \/ AddSubmit
    \/ UpdateSubmit
    \/ DeleteSubmit
    \/ FeedChange
    \/ Tick

Spec == Init /\ [][Next]_vars

\* ------------------------------------------- compute_other on its own inputs
InitCalc ==
    /\ use_db = FALSE
    /\ store = <<>>
    /\ nextId = 1
    /\ feed = 1
    /\ cache = [filled |-> FALSE, df |-> EmptyDf, age |-> 0]
    /\ show_add_form = FALSE
    /\ pc = "calc"
    /\ count = 0
    /\ last = NoOp
    /\ calcArgs \in CalcNums \X CalcNums \X CalcNums
    /\ calcRes = <<>>

\* amount, units, purchase_nav -> (amount, units)
CallComputeOther ==
    /\ pc = "calc"
    /\ calcRes = <<>>
    /\ calcRes' = compute_other(calcArgs[1], calcArgs[2], calcArgs[3])
    /\ UNCHANGED <<use_db, store, nextId, feed, cache, show_add_form, pc, count, last, calcArgs>>

NextCalc == CallComputeOther

SpecCalc == InitCalc /\ [][NextCalc]_vars
\* ------------------------------------------------------------------ claims
\* a step that is one call of refresh_navs_for_all
PassStep ==
    \/ pc = "idle" /\ last'.op = "startup"
    \/ pc = "body" /\ last'.op = "refresh_now"

HasMatch(df, r) == Match(df, r.mf_name) # <<>>

\* C1: no stored holding has units and amount both zero, and none has
\* purchase_nav <= 0: the forms reject a submission that would store one.
C1_NoInvalidLotStored ==
    \A i \in 1..Len(store) :
        /\ ~(IsZero(store[i].units) /\ IsZero(store[i].amount))
        /\ Pos(store[i].purchase_nav)

\* C2: an update of an id that is not stored reports NotFound and changes no
\* stored holding.
C2_UpdateAbsentIsNotFound ==
    [][(pc = "body" /\ last'.op = "update" /\ last'.id \notin Ids(store))
         => (last'.outcome = "NotFound" /\ store' = store)]_vars

\* C3: every stored holding has an id and no two stored holdings share one,
\* on either backend.
C3_EveryHoldingHasUniqueId ==
    /\ \A i \in 1..Len(store) : store[i].id # NoId
    /\ \A i, j \in 1..Len(store) : i # j => store[i].id # store[j].id

\* C4: in a refresh pass a holding that no row of the quote table matches is
\* left exactly as it was (its current_nav is not reset), and the returned
\* count is the number of holdings that did match.
C4_NoMatchKeepsPrice ==
    [][PassStep =>
         LET df == cache'.df IN
         /\ Len(store') = Len(store)
         /\ \A i \in 1..Len(store) : ~HasMatch(df, store[i]) => store'[i] = store[i]
         /\ last'.outcome = "ok" =>
              count' = Cardinality({i \in 1..Len(store) : HasMatch(df, store[i])})]_vars

\* a pass has just run over a holding with a known price that no row matched
C4_Witness ==
    /\ pc = "body"
    /\ last.op = "startup"
    /\ cache.df # EmptyDf
    /\ \E i \in 1..Len(store) : IsNum(store[i].current_nav) /\ ~HasMatch(cache.df, store[i])

\* C5: when the fetch fails the pass returns 0, does not raise, and every
\* holding's current_nav is what it was before the pass.
C5_FetchFailureKeepsPrices ==
    [][(PassStep /\ last'.fetch = "fail") =>
         /\ count' = 0
         /\ last'.outcome = "ok"
         /\ Len(store') = Len(store)
         /\ \A i \in 1..Len(store) : store'[i].current_nav = store[i].current_nav]_vars

\* a pass whose fetch failed has just run over a holding with a known price
C5_Witness ==
    /\ pc = "body"
    /\ last.op = "startup"
    /\ last.fetch = "fail"
    /\ count = 0
    /\ \E i \in 1..Len(store) : IsNum(store[i].current_nav)

\* C6: a holding with an empty name is not matchable: the pass does not
\* raise, leaves its current_nav as it was and does not count it.
C6_EmptyNameNotMatched ==
    [][PassStep =>
         /\ (\E i \in 1..Len(store) : store[i].mf_name = <<>>) => last'.outcome = "ok"
         /\ \A i \in 1..Len(store) :
              store[i].mf_name = <<>> => store'[i].current_nav = store[i].current_nav
         /\ last'.outcome = "ok" =>
              count' <= Cardinality({i \in 1..Len(store) : store[i].mf_name # <<>>})]_vars

\* C7: "Refresh NAVs now" does not answer from the cache: when the cached
\* table differs from what the feed now holds and the entry is within its
\* ttl, the fetch is run again.
C7_RefreshNowBypassesCache ==
    [][(pc = "body" /\ last'.op = "refresh_now" /\ CacheValid
          /\ cache.df # ParseRows(Feeds[feed]))
         => last'.fetch # "hit"]_vars

\* C8: after a refresh pass every holding's current_nav is its value before
\* the pass or the numeric price of a feed entry.
C8_OnlyNumericPrices ==
    [][PassStep =>
         \A i \in 1..Len(store) :
            \/ store'[i].current_nav = store[i].current_nav
            \/ /\ IsNum(store'[i].current_nav)
               /\ \E f \in 1..Len(Feeds) : \E k \in 1..Len(Feeds[f]) :
                     ToNumeric(Feeds[f][k].nav) = store'[i].current_nav]_vars

C10_ComputeOther ==
    calcRes # <<>> =>
        LET amount == calcArgs[1]
            units == calcArgs[2]
            price == calcArgs[3]
        IN  Pos(price) =>
              /\ (Pos(amount) /\ IsZero(units)) =>
                    (calcRes[1] = amount /\ Mul(calcRes[2], price) = amount)
              /\ (Pos(units) /\ IsZero(amount)) =>
                    (calcRes[2] = units /\ calcRes[1] = Mul(units, price))
              /\ (Pos(amount) /\ Pos(units)) => calcRes = <<amount, units>>

\* compute_other has derived a fractional number of units from an amount alone
C10_Witness ==
    /\ calcRes # <<>>
    /\ Pos(calcArgs[3])
    /\ Pos(calcArgs[1])
    /\ IsZero(calcArgs[2])
    /\ calcRes[2].d > 1
====
